---- MODULE Spec2Model ----
(***************************************************************************)
(* A model of ida-hcli's two core subsystems:                              *)
(*   - hcli/lib/ida/protocol.py : the ida:// protocol handler manager      *)
(*     (register / unregister, one strategy per platform);                 *)
(*   - hcli/lib/ida/python.py   : the embedded interpreter bridge          *)
(*     (interpreter discovery, Windows Store shim detection, pip calls).   *)
(*                                                                         *)
(* Every handler is one action.  What the operating system and the         *)
(* external tools answer (exit code, launch failure, registry error) is an *)
(* input of the action, drawn with \E.                                     *)
(***************************************************************************)
EXTENDS Integers, Sequences, FiniteSets, TLC

VARIABLES
    platform,   \* platform.system().lower() of the machine
    artifacts,  \* the handler artifacts: [mac, reg, lin]
    last,       \* what the last register()/unregister() call did
    shim,       \* the last is_windows_store_shim(path) call: argument and result
    probe,      \* one run of find_python_executable(): what it sees, what it returns
    disc,       \* one call of find_current_python_executable()
    pip         \* one call of a pip operation

vars == <<platform, artifacts, last, shim, probe, disc, pip>>

(***************************************************************************)
(* Bounds                                                                  *)
(***************************************************************************)
\* number of distinct values get_hcli_executable_path() takes over time
NumPaths == 2
\* longest standard output of the package manager, in bytes
MaxOut == 2
\* longest list of package specs handed to one pip operation
MaxPkgs == 2

HcliPaths == 1..NumPaths

\* Python's None.  A str is a sequence of one-character strings, so no str
\* equals it.
None == <<"None">>

(***************************************************************************)
(* protocol.py : platforms, artifacts, external calls                      *)
(***************************************************************************)
\* protocol.py:13
PROTOCOL == "ida"

\* the three platforms the dispatchers know, and one they do not
Platforms == {"darwin", "windows", "linux", "freebsd"}

\* An external call answers "ok" (exit 0 / done), "nonzero" (the tool ran and
\* exited with a nonzero code) or "oserror" (it could not be done at all: the
\* tool cannot be launched, the file or registry operation is refused).
SubprocessAnswers == {"ok", "nonzero", "oserror"}
FsAnswers == {"ok", "oserror"}

\* The plist of a bundle as osacompile writes it: its top-level keys.
FreshPlist == <<"CFBundleName">>

\* url_scheme_xml, protocol.py:60-73: the two keys the patch inserts
UrlSchemeXml == <<"CFBundleURLTypes", "LSUIElement">>

NoMac == [bundle |-> FALSE, script |-> 0, plist |-> <<>>, fmt |-> "none", ls |-> FALSE]
NoReg == [keys |-> {}, proto |-> FALSE, urlp |-> FALSE, icon |-> 0, cmd |-> 0]
NoLin == [dir |-> FALSE, desktop |-> 0, exec |-> FALSE, mime |-> FALSE, db |-> 0]
NoArtifacts == [mac |-> NoMac, reg |-> NoReg, lin |-> NoLin]

\* The state of one handler run: the artifacts so far, the exception raised
\* ("none" while running), the external tools invoked with what each
\* answered, every operation on the system made so far with how it went, the
\* console message.
StartRun(a) ==
    [st |-> a, err |-> "none", calls |-> <<>>, steps |-> <<>>, msg |-> "none", ret |-> FALSE]

\* one more operation made
Step(r, name, went) == [r EXCEPT !.steps = Append(@, [step |-> name, went |-> went])]

\* subprocess.run(argv, check=...): the tool is invoked; a launch failure
\* raises OSError whatever check says, a nonzero exit raises
\* CalledProcessError only under check=True.
SubprocessRun(r, tool, answer, check) ==
    LET called == Step([r EXCEPT !.calls = Append(@, [tool |-> tool, answer |-> answer])],
                       tool, answer)
    IN  IF answer = "oserror" THEN [called EXCEPT !.err = "OSError"]
        ELSE IF answer = "nonzero" /\ check THEN [called EXCEPT !.err = "CalledProcessError"]
        ELSE called

\* whether the call just made completed with exit code 0
Did(r, answer) == r.err = "none" /\ answer = "ok"

\* whether the run is still going (no exception, no return yet)
Running(r) == r.err = "none" /\ ~r.ret

\* env: what each external call of one handler run will answer
FsOp(r, name, answer) ==
    IF answer = "ok" THEN Step(r, name, "ok")
    ELSE [Step(r, name, "oserror") EXCEPT !.err = "OSError"]

\* the "except ...: console.print(red message); raise" tail every strategy has
Reraise(r) == IF r.err = "none" THEN r ELSE [r EXCEPT !.msg = "failed"]

(***************************************************************************)
(* macOS strategy                                                          *)
(***************************************************************************)
MacRegSteps == {"osacompile", "plutil_xml", "plutil_bin", "copy2", "unlink", "lsregister"}
MacUnregSteps == {"rmtree", "lsregister_u"}

\* "<key>CFBundleURLTypes</key>" in plist_content
HasKey(content, k) == \E i \in 1..Len(content) : content[i] = k

\* plist_content.replace("</dict>\n</plist>", url_scheme_xml + "\n</dict>\n</plist>"):
\* the keys go in right before the closing of the root dictionary
PlistInsert(content) == content \o UrlSchemeXml

\* the declaration inserted whatever the plist holds
NeedsUrlScheme_always(content) == TRUE

\* protocol.py:76: the declaration is inserted only when none is there
NeedsUrlScheme(content) == ~HasKey(content, "CFBundleURLTypes")

\* osacompile -o app_path script_path (check=True).  Compiling over a bundle
\* that is already there either keeps its Info.plist or writes a new one:
\* that is the tool's choice (keeps).
Osacompile(r, path, answer, keeps) ==
    IF ~Running(r) THEN r
    ELSE LET c == SubprocessRun(r, "osacompile", answer, TRUE)
             m == r.st.mac
             kept == m.bundle /\ keeps
         IN  IF ~Did(c, answer) THEN c
             ELSE [c EXCEPT !.st.mac =
                      [bundle |-> TRUE, script |-> path,
                       plist |-> IF kept THEN m.plist ELSE FreshPlist,
                       fmt |-> IF kept THEN m.fmt ELSE "xml",
                       ls |-> m.ls]]

\* protocol.py:76-88: patch the plist, convert it to binary, copy it over the
\* bundle's Info.plist, delete the temporary file
PatchPlist(r, content, env) ==
    IF ~Running(r) \/ ~NeedsUrlScheme(content) THEN r
    ELSE LET patched == PlistInsert(content)
             b == SubprocessRun(r, "plutil", env["plutil_bin"], TRUE)
             c == IF b.err # "none" THEN b
                  ELSE LET f == FsOp(b, "copy2", env["copy2"])
                       IN  IF f.err # "none" THEN f
                           ELSE [f EXCEPT !.st.mac.plist = patched,
                                          !.st.mac.fmt = "binary"]
         IN  IF c.err # "none" THEN c ELSE FsOp(c, "unlink", env["unlink"])

\* protocol.py:16-107
setup_macos_protocol_handler(a, path, env, keeps) ==
    LET r1 == Osacompile(StartRun(a), path, env["osacompile"], keeps)
        r2 == IF Running(r1)
              THEN SubprocessRun(r1, "plutil", env["plutil_xml"], TRUE)
              ELSE r1
        plist_content == r2.st.mac.plist
        r3 == PatchPlist(r2, plist_content, env)
        r4 == IF ~Running(r3) THEN r3
              ELSE LET c == SubprocessRun(r3, "lsregister", env["lsregister"], TRUE)
                   IN  IF Did(c, env["lsregister"])
                       THEN [c EXCEPT !.st.mac.ls = TRUE]
                       ELSE c
    IN  IF r4.err = "none" THEN [r4 EXCEPT !.msg = "installed"] ELSE Reraise(r4)

\* unregister that tells Launch Services even when there is no bundle
unregister_macos_always_notifies(a, env) ==
    LET r0 == StartRun(a)
        r1 == IF a.mac.bundle THEN FsOp(r0, "rmtree", env["rmtree"]) ELSE r0
        r2 == IF r1.err # "none" THEN r1
              ELSE [r1 EXCEPT !.st.mac.bundle = FALSE, !.st.mac.script = 0,
                              !.st.mac.plist = <<>>, !.st.mac.fmt = "none"]
        r3 == IF r2.err # "none" THEN r2
              ELSE LET c == SubprocessRun(r2, "lsregister", env["lsregister_u"], FALSE)
                   IN  IF Did(c, env["lsregister_u"])
                       THEN [c EXCEPT !.st.mac.ls = FALSE]
                       ELSE c
    IN  IF r3.err # "none" THEN Reraise(r3)
        ELSE [r3 EXCEPT !.msg = IF a.mac.bundle THEN "removed" ELSE "not_found"]

\* protocol.py:189-215
unregister_macos_protocol_handler(a, env) ==
    LET r0 == StartRun(a)
    IN  IF ~a.mac.bundle
        THEN [r0 EXCEPT !.msg = "not_found", !.ret = TRUE]
        ELSE LET r1 == FsOp(r0, "rmtree", env["rmtree"])
                 r2 == IF r1.err # "none" THEN r1
                       ELSE [r1 EXCEPT !.st.mac.bundle = FALSE,
                                       !.st.mac.script = 0,
                                       !.st.mac.plist = <<>>,
                                       !.st.mac.fmt = "none"]
                 r3 == IF r2.err # "none" THEN r2
                       ELSE LET c == SubprocessRun(r2, "lsregister", env["lsregister_u"], FALSE)
                            IN  IF Did(c, env["lsregister_u"])
                                THEN [c EXCEPT !.st.mac.ls = FALSE]
                                ELSE c
             IN  IF r3.err = "none" THEN [r3 EXCEPT !.msg = "removed"] ELSE Reraise(r3)

(***************************************************************************)
(* Windows strategy                                                        *)
(***************************************************************************)
\* the keys of HKCU\SOFTWARE\Classes\ida, by their last component
RegKeys == {"root", "DefaultIcon", "shell", "open", "command"}

\* the key a key sits in ("root" sits in SOFTWARE\Classes, which is always there)
RegParent(k) ==
    CASE k = "DefaultIcon" -> "root"
      [] k = "shell" -> "root"
      [] k = "open" -> "shell"
      [] k = "command" -> "open"
      [] OTHER -> "none"

RECURSIVE RegAncestors(_)
RegAncestors(k) ==
    IF RegParent(k) = "none" THEN {} ELSE {RegParent(k)} \cup RegAncestors(RegParent(k))

\* the values a key holds go with the key
ClearValues(g, k) ==
    CASE k = "root" -> [g EXCEPT !.proto = FALSE, !.urlp = FALSE]
      [] k = "DefaultIcon" -> [g EXCEPT !.icon = 0]
      [] k = "command" -> [g EXCEPT !.cmd = 0]
      [] OTHER -> g

\* winreg.CreateKey: opens the key, creating it (and the keys above it) if
\* it is not there
CreateKey(r, k, answer) ==
    IF ~Running(r) THEN r
    ELSE IF answer # "ok" THEN [Step(r, "CreateKey", "oserror") EXCEPT !.err = "OSError"]
    ELSE [Step(r, "CreateKey", "ok") EXCEPT
             !.st.reg.keys = @ \cup {k} \cup RegAncestors(k)]

\* winreg.SetValueEx: the value is replaced
SetValueEx(r, field, value, answer) ==
    IF ~Running(r) THEN r
    ELSE IF answer # "ok" THEN [Step(r, "SetValueEx", "oserror") EXCEPT !.err = "OSError"]
    ELSE [Step(r, "SetValueEx", "ok") EXCEPT !.st.reg[field] = value]

\* winreg.DeleteKeyEx: a key that is not there is FileNotFoundError, a key
\* that still has subkeys cannot be deleted (PermissionError), anything else
\* the registry refuses is an OSError
DeleteKeyEx(r, k, answer) ==
    IF ~Running(r) THEN r
    ELSE IF k \notin r.st.reg.keys
         THEN [Step(r, "DeleteKeyEx", "notfound") EXCEPT !.err = "FileNotFoundError"]
    ELSE IF \E c \in r.st.reg.keys : RegParent(c) = k
         THEN [Step(r, "DeleteKeyEx", "denied") EXCEPT !.err = "PermissionError"]
    ELSE IF answer # "ok" THEN [Step(r, "DeleteKeyEx", "oserror") EXCEPT !.err = "OSError"]
    ELSE [Step(r, "DeleteKeyEx", "ok") EXCEPT
             !.st.reg = ClearValues([@ EXCEPT !.keys = @ \ {k}], k)]

WinRegSteps == {"create_root", "set_default", "set_urlp", "create_icon", "set_icon",
                "create_shell", "create_open", "create_command", "set_command"}

\* protocol.py:110-145
setup_windows_protocol_handler(a, path, env) ==
    LET r1 == CreateKey(StartRun(a), "root", env["create_root"])
        r2 == SetValueEx(r1, "proto", TRUE, env["set_default"])
        r3 == SetValueEx(r2, "urlp", TRUE, env["set_urlp"])
        r4 == CreateKey(r3, "DefaultIcon", env["create_icon"])
        r5 == SetValueEx(r4, "icon", path, env["set_icon"])
        r6 == CreateKey(r5, "shell", env["create_shell"])
        r7 == CreateKey(r6, "open", env["create_open"])
        r8 == CreateKey(r7, "command", env["create_command"])
        r9 == SetValueEx(r8, "cmd", path, env["set_command"])
    IN  IF r9.err = "none" THEN [r9 EXCEPT !.msg = "installed"] ELSE Reraise(r9)

\* the keys deleted from the root key down
WinDeleteOrder_root_first == <<"root", "DefaultIcon", "shell", "open", "command">>

\* protocol.py:227-232: the order in which the keys are deleted
WinDeleteOrder == <<"command", "open", "shell", "DefaultIcon", "root">>

WinUnregSteps == {"del_1", "del_2", "del_3", "del_4", "del_5"}

\* protocol.py:218-247
unregister_windows_protocol_handler(a, env) ==
    LET r1 == DeleteKeyEx(StartRun(a), WinDeleteOrder[1], env["del_1"])
        r2 == DeleteKeyEx(r1, WinDeleteOrder[2], env["del_2"])
        r3 == DeleteKeyEx(r2, WinDeleteOrder[3], env["del_3"])
        r4 == DeleteKeyEx(r3, WinDeleteOrder[4], env["del_4"])
        r5 == DeleteKeyEx(r4, WinDeleteOrder[5], env["del_5"])
        removed == r5.err = "none"
    IN  IF removed THEN [r5 EXCEPT !.msg = "removed"]
        ELSE IF r5.err = "FileNotFoundError"
             THEN [r5 EXCEPT !.err = "none", !.msg = "not_found"]
        ELSE Reraise(r5)

(***************************************************************************)
(* Linux strategy                                                          *)
(***************************************************************************)
LinRegSteps == {"mkdir", "write_text", "chmod", "xdg_mime", "update_db"}
LinUnregSteps == {"unlink", "xdg_mime", "update_db"}

\* Path.mkdir(parents=True, exist_ok=...)
Mkdir(r, answer, exist_ok) ==
    IF ~Running(r) THEN r
    ELSE IF r.st.lin.dir
         THEN IF exist_ok THEN Step(r, "mkdir", "ok")
              ELSE [Step(r, "mkdir", "exists") EXCEPT !.err = "FileExistsError"]
    ELSE IF answer # "ok" THEN [Step(r, "mkdir", "oserror") EXCEPT !.err = "OSError"]
    ELSE [Step(r, "mkdir", "ok") EXCEPT !.st.lin.dir = TRUE]

\* applications_dir.mkdir(parents=True) without exist_ok
MakeApplicationsDir_no_exist_ok(r, answer) == Mkdir(r, answer, FALSE)

\* protocol.py:154-155
MakeApplicationsDir(r, answer) == Mkdir(r, answer, TRUE)

\* desktop_path.write_text(desktop_content): a new file is not executable,
\* a file that was there keeps its mode
WriteDesktopEntry(r, path, answer) ==
    IF ~Running(r) THEN r
    ELSE IF answer # "ok" THEN [Step(r, "write_text", "oserror") EXCEPT !.err = "OSError"]
    ELSE [Step(r, "write_text", "ok") EXCEPT !.st.lin.desktop = path,
                   !.st.lin.exec = (r.st.lin.desktop # 0 /\ r.st.lin.exec)]

\* desktop_path.chmod(0o755)
Chmod(r, answer) ==
    IF ~Running(r) THEN r
    ELSE IF answer # "ok" THEN [Step(r, "chmod", "oserror") EXCEPT !.err = "OSError"]
    ELSE [Step(r, "chmod", "ok") EXCEPT !.st.lin.exec = TRUE]

\* xdg-mime default <application> x-scheme-handler/ida
XdgMimeDefault(r, set, answer, check) ==
    IF ~Running(r) THEN r
    ELSE LET c == SubprocessRun(r, "xdg-mime", answer, check)
         IN  IF Did(c, answer) THEN [c EXCEPT !.st.lin.mime = set] ELSE c

\* update-desktop-database <applications_dir>: the index then shows the
\* desktop entry as it is
UpdateDesktopDatabase(r, answer, check) ==
    IF ~Running(r) THEN r
    ELSE LET c == SubprocessRun(r, "update-desktop-database", answer, check)
         IN  IF Did(c, answer) THEN [c EXCEPT !.st.lin.db = c.st.lin.desktop] ELSE c

\* register that deletes the desktop entry again when a later step fails
setup_linux_removes_entry_on_failure(a, path, env) ==
    LET r1 == MakeApplicationsDir(StartRun(a), env["mkdir"])
        r2 == WriteDesktopEntry(r1, path, env["write_text"])
        r3 == Chmod(r2, env["chmod"])
        r4 == XdgMimeDefault(r3, TRUE, env["xdg_mime"], TRUE)
        r5 == UpdateDesktopDatabase(r4, env["update_db"], FALSE)
    IN  IF r5.err = "none" THEN [r5 EXCEPT !.msg = "installed"]
        ELSE Reraise([r5 EXCEPT !.st.lin.desktop = 0, !.st.lin.exec = FALSE])

\* protocol.py:148-186
setup_linux_protocol_handler(a, path, env) ==
    LET r1 == MakeApplicationsDir(StartRun(a), env["mkdir"])
        r2 == WriteDesktopEntry(r1, path, env["write_text"])
        r3 == Chmod(r2, env["chmod"])
        r4 == XdgMimeDefault(r3, TRUE, env["xdg_mime"], TRUE)
        r5 == UpdateDesktopDatabase(r4, env["update_db"], FALSE)
    IN  IF r5.err = "none" THEN [r5 EXCEPT !.msg = "installed"] ELSE Reraise(r5)

\* unregister that runs the xdg-mime clearing with check=True
unregister_linux_checks_xdg_mime(a, env) ==
    LET r0 == StartRun(a)
    IN  IF a.lin.desktop = 0
        THEN [r0 EXCEPT !.msg = "not_found", !.ret = TRUE]
        ELSE LET u == FsOp(r0, "unlink", env["unlink"])
                 r1 == IF u.err # "none" THEN u
                       ELSE [u EXCEPT !.st.lin.desktop = 0, !.st.lin.exec = FALSE]
                 r2 == XdgMimeDefault(r1, FALSE, env["xdg_mime"], TRUE)
                 r3 == UpdateDesktopDatabase(r2, env["update_db"], FALSE)
             IN  IF r3.err = "none" THEN [r3 EXCEPT !.msg = "removed"] ELSE Reraise(r3)

\* protocol.py:250-278
unregister_linux_protocol_handler(a, env) ==
    LET r0 == StartRun(a)
    IN  IF a.lin.desktop = 0
        THEN [r0 EXCEPT !.msg = "not_found", !.ret = TRUE]
        ELSE LET u == FsOp(r0, "unlink", env["unlink"])
                 r1 == IF u.err # "none" THEN u
                       ELSE [u EXCEPT !.st.lin.desktop = 0, !.st.lin.exec = FALSE]
                 r2 == XdgMimeDefault(r1, FALSE, env["xdg_mime"], FALSE)
                 r3 == UpdateDesktopDatabase(r2, env["update_db"], FALSE)
             IN  IF r3.err = "none" THEN [r3 EXCEPT !.msg = "removed"] ELSE Reraise(r3)

(***************************************************************************)
(* Platform dispatch                                                       *)
(***************************************************************************)
\* the dispatcher printing "Unsupported platform" and returning
Unsupported_prints_only(a) == [StartRun(a) EXCEPT !.msg = "unsupported"]

\* protocol.py:291-293, 306-308

Unsupported(a) == [StartRun(a) EXCEPT !.err = "RuntimeError", !.msg = "unsupported"]

\* protocol.py:281-293
register_protocol_handler(current_platform, a, path, env, keeps) ==
    IF current_platform = "darwin" THEN setup_macos_protocol_handler(a, path, env, keeps)
    ELSE IF current_platform = "windows" THEN setup_windows_protocol_handler(a, path, env)
    ELSE IF current_platform = "linux" THEN setup_linux_protocol_handler(a, path, env)
    ELSE Unsupported(a)

\* protocol.py:296-308
unregister_protocol_handler(current_platform, a, env) ==
    IF current_platform = "darwin" THEN unregister_macos_protocol_handler(a, env)
    ELSE IF current_platform = "windows" THEN unregister_windows_protocol_handler(a, env)
    ELSE IF current_platform = "linux" THEN unregister_linux_protocol_handler(a, env)
    ELSE Unsupported(a)

(***************************************************************************)
(* What the environment may answer during one run                          *)
(***************************************************************************)
\* the steps that are file or registry operations (they cannot "exit nonzero")
FsSteps == {"copy2", "unlink", "rmtree", "mkdir", "write_text", "chmod"}
             \cup WinRegSteps \cup WinUnregSteps

AllOk(steps) == [s \in steps |-> "ok"]

\* every answer, step by step
AnyEnvs(steps) ==
    {e \in [steps -> SubprocessAnswers] : \A s \in steps \cap FsSteps : e[s] # "nonzero"}

\* at most one step that does not answer "ok": enough where the first failure
\* ends the run
OneFaultEnvs(steps) ==
    {AllOk(steps)} \cup
    {[s \in steps |-> IF s = f THEN k ELSE "ok"] :
        <<f, k>> \in {x \in steps \X {"nonzero", "oserror"} :
                          x[1] \in FsSteps => x[2] = "oserror"}}

RegisterEnvs(p) ==
    IF p = "darwin" THEN OneFaultEnvs(MacRegSteps)
    ELSE IF p = "windows" THEN OneFaultEnvs(WinRegSteps)
    ELSE IF p = "linux" THEN AnyEnvs(LinRegSteps)
    ELSE {AllOk({})}

UnregisterEnvs(p) ==
    IF p = "darwin" THEN AnyEnvs(MacUnregSteps)
    ELSE IF p = "windows" THEN OneFaultEnvs(WinUnregSteps)
    ELSE IF p = "linux" THEN AnyEnvs(LinUnregSteps)
    ELSE {AllOk({})}

IsClean(env) == \A s \in DOMAIN env : env[s] = "ok"

(***************************************************************************)
(* The two commands                                                        *)
(***************************************************************************)
Outcome(r) == IF r.err # "none" THEN "raised" ELSE r.msg

NoCall == [op |-> "none", outcome |-> "none", path |-> 0]

Record(op, r, path, env, pre, prev) ==
    [op |-> op, outcome |-> Outcome(r), err |-> r.err, calls |-> r.calls,
     path |-> path, clean |-> IsClean(env), steps |-> r.steps, pre |-> pre,
     prev |-> [op |-> prev.op, outcome |-> prev.outcome, path |-> prev.path]]

\* no call made yet
IdleLast == [op |-> "none", outcome |-> "none", err |-> "none", calls |-> <<>>,
             path |-> 0, clean |-> TRUE, steps |-> <<>>, pre |-> NoArtifacts,
             prev |-> NoCall]
IdleShim == [op |-> "idle", path |-> None, expect |-> FALSE, result |-> FALSE,
             script |-> [err |-> "notrun", value |-> FALSE]]
IdleProbe == [op |-> "idle"]
IdleDisc == [op |-> "idle"]
IdlePip == [op |-> "idle"]

InitProtocol ==
    /\ platform \in Platforms
    /\ artifacts = NoArtifacts
    /\ last = IdleLast
    /\ shim = IdleShim
    /\ probe = IdleProbe
    /\ disc = IdleDisc
    /\ pip = IdlePip

Register ==
    \E path \in HcliPaths, keeps \in BOOLEAN, env \in RegisterEnvs(platform) :
        LET r == register_protocol_handler(platform, artifacts, path, env, keeps)
        IN  /\ artifacts' = r.st
            /\ last' = Record("register", r, path, env, artifacts, last)
            /\ UNCHANGED <<platform, shim, probe, disc, pip>>

Unregister ==
    \E env \in UnregisterEnvs(platform) :
        LET r == unregister_protocol_handler(platform, artifacts, env)
        IN  /\ artifacts' = r.st
            /\ last' = Record("unregister", r, 0, env, artifacts, last)
            /\ UNCHANGED <<platform, shim, probe, disc, pip>>

NextProtocol == Register \/ Unregister

Spec == InitProtocol /\ [][NextProtocol]_vars

(***************************************************************************)
(* python.py : strings                                                     *)
(*                                                                         *)
(* A str is a sequence of one-character strings; None is the value None.   *)
(***************************************************************************)
UpperLetters == <<"A", "B", "C", "D", "E", "F", "G", "H", "I", "J", "K", "L", "M", "N", "O", "P", "Q", "R", "S", "T", "U", "V", "W", "X", "Y", "Z">>
LowerLetters == <<"a", "b", "c", "d", "e", "f", "g", "h", "i", "j", "k", "l", "m", "n", "o", "p", "q", "r", "s", "t", "u", "v", "w", "x", "y", "z">>

\* str.lower(), one character
LowerChar(c) ==
    IF \E i \in 1..Len(UpperLetters) : UpperLetters[i] = c
    THEN LowerLetters[CHOOSE i \in 1..Len(UpperLetters) : UpperLetters[i] = c]
    ELSE c

UpperChar(c) ==
    IF \E i \in 1..Len(LowerLetters) : LowerLetters[i] = c
    THEN UpperLetters[CHOOSE i \in 1..Len(LowerLetters) : LowerLetters[i] = c]
    ELSE c

\* str.lower()
Lower(str) == [i \in 1..Len(str) |-> LowerChar(str[i])]

\* str.upper()
Upper(str) == [i \in 1..Len(str) |-> UpperChar(str[i])]

\* pat in str
In(pat, str) ==
    \E i \in 0..(Len(str) - Len(pat)) : SubSeq(str, i + 1, i + Len(pat)) = pat

Backslash == <<"\\">>
Slash == <<"/">>

\* python.py:26: "microsoft\\windowsapps" and "microsoft/windowsapps" (the
\* first one written with an escaped backslash: one backslash in the value)
ShimBackslash == <<"m", "i", "c", "r", "o", "s", "o", "f", "t", "\\", "w", "i", "n", "d", "o", "w", "s", "a", "p", "p", "s">>
ShimSlash == <<"m", "i", "c", "r", "o", "s", "o", "f", "t", "/", "w", "i", "n", "d", "o", "w", "s", "a", "p", "p", "s">>

\* is_windows_store_shim without the lower-casing
is_windows_store_shim_case_sensitive(path) ==
    IF path = None THEN FALSE
    ELSE In(ShimBackslash, path) \/ In(ShimSlash, path)

\* python.py:13-26
is_windows_store_shim(path) ==
    IF path = None THEN FALSE
    ELSE LET lowered == Lower(path)
         IN  In(ShimBackslash, lowered) \/ In(ShimSlash, lowered)

(***************************************************************************)
(* python.py:29-105 : FIND_PYTHON_PY, the script run inside IDA's Python   *)
(***************************************************************************)
SyntaxError == <<"SyntaxError">>

HexDigits == {"0", "1", "2", "3", "4", "5", "6", "7", "8", "9",
              "a", "b", "c", "d", "e", "f", "A", "B", "C", "D", "E", "F"}

\* the number of hexadecimal digits the escape \c takes (0: c starts no such escape)
HexEscapeLen(c) ==
    IF c = "x" THEN 2 ELSE IF c = "u" THEN 4 ELSE IF c = "U" THEN 8 ELSE 0

\* What Python makes of the text of a string literal that is not a raw
\* string: \\ is one backslash, \x \u \U take 2, 4, 8 hexadecimal digits (a
\* SyntaxError without them; the character itself is kept as "?" here), a
\* backslash before any other character stays.
RECURSIVE PyUnescape(_)
PyUnescape(text) ==
    IF text = SyntaxError THEN SyntaxError
    ELSE IF Len(text) = 0 THEN <<>>
    ELSE IF text[1] # "\\" \/ Len(text) = 1
         THEN LET rest == PyUnescape(Tail(text))
              IN  IF rest = SyntaxError THEN SyntaxError ELSE <<text[1]>> \o rest
    ELSE LET n == HexEscapeLen(text[2])
             taken == IF text[2] = "\\" THEN 2 ELSE IF n > 0 THEN 2 + n ELSE 1
             bad == /\ n > 0
                    /\ \/ Len(text) < 2 + n
                       \/ \E i \in 3..(2 + n) : text[i] \notin HexDigits
             rest == IF bad THEN SyntaxError
                     ELSE PyUnescape(SubSeq(text, taken + 1, Len(text)))
         IN  IF rest = SyntaxError THEN SyntaxError
             ELSE IF text[2] = "\\" THEN Backslash \o rest
             ELSE IF n > 0 THEN <<"?">> \o rest
             ELSE Backslash \o rest

\* python.py:52 as written in python.py, inside the FIND_PYTHON_PY literal:
\* "microsoft\\\\windowsapps" and "microsoft/windowsapps"
HostTextShimBackslash == <<"m", "i", "c", "r", "o", "s", "o", "f", "t", "\\", "\\", "\\", "\\", "w", "i", "n", "d", "o", "w", "s", "a", "p", "p", "s">>
HostTextShimSlash == <<"m", "i", "c", "r", "o", "s", "o", "f", "t", "/", "w", "i", "n", "d", "o", "w", "s", "a", "p", "p", "s">>

\* the two patterns as the script's interpreter sees them: the host evaluates
\* the FIND_PYTHON_PY literal, the interpreter evaluates the script's literal
ScriptShimBackslash == PyUnescape(PyUnescape(HostTextShimBackslash))
ScriptShimSlash == PyUnescape(PyUnescape(HostTextShimSlash))

\* python.py:43 as written in python.py, inside the FIND_PYTHON_PY literal:
\* the path shown in the docstring of the script's is_windows_store_shim,
\* C:\\Users\\...\\AppData\\Local\\Microsoft\\WindowsApps\\python3.EXE
HostTextShimDocstring == <<"C", ":", "\\", "\\", "U", "s", "e", "r", "s", "\\", "\\", ".", ".", ".", "\\", "\\", "A", "p", "p", "D", "a", "t", "a", "\\", "\\", "L", "o", "c", "a", "l", "\\", "\\", "M", "i", "c", "r", "o", "s", "o", "f", "t", "\\", "\\", "W", "i", "n", "d", "o", "w", "s", "A", "p", "p", "s", "\\", "\\", "p", "y", "t", "h", "o", "n", "3", ".", "E", "X", "E">>

\* the docstring as the script's interpreter sees it
ScriptShimDocstring == PyUnescape(PyUnescape(HostTextShimDocstring))

\* python.py:39-52
script_is_windows_store_shim(path) ==
    IF path = None THEN FALSE
    ELSE LET lowered == Lower(path)
         IN  In(ScriptShimBackslash, lowered) \/ In(ScriptShimSlash, lowered)

\* bool(x) of a str or None
Truthy(x) == x # None /\ x # <<>>

IsWin(sys_platform) == sys_platform = "win32"

\* os.path.join(a, b) for a relative b: ntpath on win32, posixpath elsewhere
PathJoin(sys_platform, a, b) ==
    IF a = <<>> THEN b
    ELSE IF IsWin(sys_platform)
         THEN IF a[Len(a)] \in {"\\", "/", ":"} THEN a \o b ELSE a \o Backslash \o b
    ELSE IF a[Len(a)] = "/" THEN a \o b ELSE a \o Slash \o b

\* os.path.basename(p)
Basename(sys_platform, p) ==
    LET seps == IF IsWin(sys_platform) THEN {"\\", "/"} ELSE {"/"}
        cuts == {i \in 1..Len(p) : p[i] \in seps \/ (IsWin(sys_platform) /\ i = 2 /\ p[i] = ":")}
        cut == IF cuts = {} THEN 0 ELSE CHOOSE i \in cuts : \A j \in cuts : j <= i
    IN  SubSeq(p, cut + 1, Len(p))

NamePython == <<"p", "y", "t", "h", "o", "n">>
NamePython3 == <<"p", "y", "t", "h", "o", "n", "3">>
NamePythonExe == <<"p", "y", "t", "h", "o", "n", ".", "e", "x", "e">>
NameBin == <<"b", "i", "n">>

\* python.py:55-78; isfile is the set of paths that are files
find_python_from_prefix(sys_platform, prefix, isfile) ==
    IF ~Truthy(prefix) THEN None
    ELSE LET win == PathJoin(sys_platform, prefix, NamePythonExe)
             bin3 == PathJoin(sys_platform, PathJoin(sys_platform, prefix, NameBin), NamePython3)
             bin == PathJoin(sys_platform, PathJoin(sys_platform, prefix, NameBin), NamePython)
         IN  IF IsWin(sys_platform) /\ win \in isfile THEN win
             ELSE IF bin3 \in isfile THEN bin3
             ELSE IF bin \in isfile THEN bin
             ELSE None

\* a or b
PyOr(a, b) == IF Truthy(a) THEN a ELSE b

\* find_python_executable whose search-path step takes python3 or python
\* without looking for a shim
find_python_executable_unfiltered(sys_platform, exe, prefix, isfile, which3, which) ==
    LET prefix_python == find_python_from_prefix(sys_platform, prefix, isfile)
    IN  IF /\ Truthy(exe)
           /\ In(NamePython, Lower(Basename(sys_platform, exe)))
           /\ ~script_is_windows_store_shim(exe)
        THEN exe
        ELSE IF Truthy(prefix_python) /\ ~script_is_windows_store_shim(prefix_python)
             THEN prefix_python
        ELSE PyOr(which3, which)

\* python.py:81-100; which3 and which are shutil.which("python3") and
\* shutil.which("python")
find_python_executable(sys_platform, exe, prefix, isfile, which3, which) ==
    LET prefix_python == find_python_from_prefix(sys_platform, prefix, isfile)
    IN  IF /\ Truthy(exe)
           /\ In(NamePython, Lower(Basename(sys_platform, exe)))
           /\ ~script_is_windows_store_shim(exe)
        THEN exe
        ELSE IF Truthy(prefix_python) /\ ~script_is_windows_store_shim(prefix_python)
             THEN prefix_python
        ELSE IF Truthy(which3) /\ ~script_is_windows_store_shim(which3) THEN which3
        ELSE IF Truthy(which) /\ ~script_is_windows_store_shim(which) THEN which
        ELSE PyOr(which3, which)

\* how a call of the script's detector ends: with a value, or with an error
\* and no value
NotRun == [err |-> "notrun", value |-> FALSE]
ShimReturned(value) == [err |-> "none", value |-> value]
ShimRaised(err) == [err |-> err, value |-> FALSE]

\* python.py:39-52 in the script as the host's interpreter compiles it: a
\* string literal of the script that is no valid literal fails the
\* compilation of the whole script with SyntaxError, and none of its
\* functions is ever defined
embedded_is_windows_store_shim(path) ==
    IF SyntaxError \in {ScriptShimDocstring, ScriptShimBackslash, ScriptShimSlash}
    THEN ShimRaised("SyntaxError")
    ELSE ShimReturned(script_is_windows_store_shim(path))

(***************************************************************************)
(* Calls of is_windows_store_shim                                          *)
(***************************************************************************)
\* the word with its first letter, or its k-th letter, in upper case
Title(w) == [i \in 1..Len(w) |-> IF i = 1 THEN UpperChar(w[i]) ELSE w[i]]
FlipAt(w, k) == [i \in 1..Len(w) |-> IF i = k THEN UpperChar(w[i]) ELSE w[i]]

\* a word in every way of writing its case that the model tries
CaseVariants(w) == {w, Upper(w), Title(w)} \cup {FlipAt(w, k) : k \in 1..Len(w)}

\* words that are nearly w, and are not w in any case
NearMisses(w) == {SubSeq(w, 1, Len(w) - 1), SubSeq(w, 2, Len(w)),
                  [i \in 1..Len(w) |-> IF i = 3 THEN "_" ELSE w[i]]}

WordMicrosoft == <<"m", "i", "c", "r", "o", "s", "o", "f", "t">>
WordWindowsApps == <<"w", "i", "n", "d", "o", "w", "s", "a", "p", "p", "s">>

PathHeads == {<<>>, <<"C", ":", "\\", "U", "s", "e", "r", "s", "\\", "U", "\\", "A", "p", "p", "D", "a", "t", "a", "\\", "L", "o", "c", "a", "l", "\\">>, <<"/", "m", "n", "t", "/", "c", "/">>}
PathTails == {<<>>, <<"\\", "p", "y", "t", "h", "o", "n", "3", ".", "e", "x", "e">>, <<"/", "P", "Y", "T", "H", "O", "N", "3", ".", "E", "X", "E">>}
PathSeps == {Backslash, Slash, <<>>, Backslash \o Backslash, Slash \o Backslash, <<"_">>}

\* paths of interpreters that are no Store shims (tests/lib/test_ida_python.py:41-55)
PlainPaths == {<<"/", "u", "s", "r", "/", "b", "i", "n", "/", "p", "y", "t", "h", "o", "n", "3">>,
               <<"C", ":", "\\", "P", "y", "t", "h", "o", "n", "3", "1", "2", "\\", "p", "y", "t", "h", "o", "n", ".", "e", "x", "e">>,
               <<"C", ":", "\\", "P", "r", "o", "g", "r", "a", "m", " ", "F", "i", "l", "e", "s", "\\", "I", "D", "A", " ", "P", "r", "o", "f", "e", "s", "s", "i", "o", "n", "a", "l", " ", "9", ".", "2", "\\", "p", "y", "t", "h", "o", "n", "3", "1", "4", "\\", "p", "y", "t", "h", "o", "n", ".", "e", "x", "e">>,
               <<"/", "h", "o", "m", "e", "/", "m", "i", "c", "r", "o", "s", "o", "f", "t", "/", "w", "i", "n", "d", "o", "w", "s", "/", "a", "p", "p", "s", "/", "p", "y", "t", "h", "o", "n", "3">>,
               <<>>}

\* the paths is_windows_store_shim is called on, each with what is expected
\* of it by the way it was put together: a head, a way of writing "microsoft",
\* a separator, a way of writing "windowsapps", a tail
BuiltShimInputs ==
    {[op |-> "input",
      path |-> head \o ms \o sep \o wa \o tail,
      expect |-> /\ ms \in CaseVariants(WordMicrosoft)
                 /\ sep \in {Backslash, Slash}
                 /\ wa \in CaseVariants(WordWindowsApps),
      result |-> FALSE, script |-> NotRun] :
        head \in PathHeads, tail \in PathTails, sep \in PathSeps,
        ms \in CaseVariants(WordMicrosoft) \cup NearMisses(WordMicrosoft),
        wa \in CaseVariants(WordWindowsApps) \cup NearMisses(WordWindowsApps)}

\* None and the paths of real interpreters
PlainShimInputs ==
    {[op |-> "input", path |-> path, expect |-> FALSE, result |-> FALSE, script |-> NotRun] :
        path \in PlainPaths \cup {None}}

InitShim ==
    /\ platform = "linux"
    /\ artifacts = NoArtifacts
    /\ last = IdleLast
    /\ shim \in BuiltShimInputs \cup PlainShimInputs
    /\ probe = IdleProbe
    /\ disc = IdleDisc
    /\ pip = IdlePip

\* one call of is_windows_store_shim(path)
CheckShim ==
    /\ shim.op = "input"
    /\ shim' = [shim EXCEPT !.op = "checked",
                            !.result = is_windows_store_shim(shim.path)]
    /\ UNCHANGED <<platform, artifacts, last, probe, disc, pip>>

\* one call of the is_windows_store_shim of FIND_PYTHON_PY on the same path,
\* in the host's interpreter
CheckScriptShim ==
    /\ shim.op # "idle"
    /\ shim.script = NotRun
    /\ shim' = [shim EXCEPT !.script = embedded_is_windows_store_shim(shim.path)]
    /\ UNCHANGED <<platform, artifacts, last, probe, disc, pip>>

NextShim == CheckShim \/ CheckScriptShim

SpecShim == InitShim /\ [][NextShim]_vars

(***************************************************************************)
(* Runs of find_python_executable                                          *)
(***************************************************************************)
RealWinPython == <<"C", ":", "\\", "P", "y", "\\", "p", "y", "t", "h", "o", "n", ".", "e", "x", "e">>
ShimWinPython == <<"C", ":", "\\", "U", "\\", "M", "i", "c", "r", "o", "s", "o", "f", "t", "\\", "W", "i", "n", "d", "o", "w", "s", "A", "p", "p", "s", "\\", "p", "y", "t", "h", "o", "n", ".", "e", "x", "e">>
ShimWinPython3 == <<"C", ":", "\\", "U", "\\", "M", "i", "c", "r", "o", "s", "o", "f", "t", "\\", "W", "i", "n", "d", "o", "w", "s", "A", "p", "p", "s", "\\", "p", "y", "t", "h", "o", "n", "3", ".", "e", "x", "e">>
RealPosixPython3 == <<"/", "u", "s", "r", "/", "b", "i", "n", "/", "p", "y", "t", "h", "o", "n", "3">>

\* sys.executable: unset, empty, the host application, interpreters, a shim
ExeChoices == {None, <<>>, <<"C", ":", "\\", "I", "D", "A", "\\", "i", "d", "a", "t", ".", "e", "x", "e">>, <<"/", "o", "p", "t", "/", "p", "y", "t", "h", "o", "n", "/", "i", "d", "a", "t">>,
               RealWinPython, ShimWinPython, <<"/", "o", "p", "t", "/", "i", "d", "a", "/", "P", "y", "t", "h", "o", "n", "3">>}

\* sys.prefix
PrefixChoices == {<<>>, <<"C", ":", "\\", "I", "D", "A", "\\", "p", "y">>, <<"C", ":", "\\", "U", "\\", "M", "i", "c", "r", "o", "s", "o", "f", "t", "\\", "W", "i", "n", "d", "o", "w", "s", "A", "p", "p", "s">>, <<"/", "o", "p", "t", "/", "i", "d", "a", "/">>}

\* shutil.which(...)
WhichChoices == {None, RealWinPython, RealPosixPython3, ShimWinPython3}

SysPlatforms == {"win32", "linux"}

\* the files there are under the prefix, by name
PrefixNames == {"python.exe", "bin/python3", "bin/python"}

PrefixPath(sys_platform, prefix, name) ==
    IF name = "python.exe" THEN PathJoin(sys_platform, prefix, NamePythonExe)
    ELSE PathJoin(sys_platform, PathJoin(sys_platform, prefix, NameBin),
                  IF name = "bin/python3" THEN NamePython3 ELSE NamePython)

\* os.path.isfile, as the set of the paths it is true of
IsFileSet(pr) == {PrefixPath(pr.sys_platform, pr.prefix, n) : n \in pr.names}

ProbeInputs ==
    {[op |-> "input", sys_platform |-> sp, exe |-> exe, prefix |-> prefix,
      names |-> names, which3 |-> w3, which |-> w, result |-> None] :
        sp \in SysPlatforms, exe \in ExeChoices, prefix \in PrefixChoices,
        names \in SUBSET PrefixNames, w3 \in WhichChoices, w \in WhichChoices}

InitScript ==
    /\ platform = "linux"
    /\ artifacts = NoArtifacts
    /\ last = IdleLast
    /\ shim = IdleShim
    /\ probe \in ProbeInputs
    /\ disc = IdleDisc
    /\ pip = IdlePip

\* one run of find_python_executable() inside the host's interpreter
RunFindPythonExecutable ==
    /\ probe.op = "input"
    /\ probe' = [probe EXCEPT
                   !.op = "ran",
                   !.result = find_python_executable(probe.sys_platform, probe.exe,
                                  probe.prefix, IsFileSet(probe), probe.which3, probe.which)]
    /\ UNCHANGED <<platform, artifacts, last, shim, disc, pip>>

NextScript == RunFindPythonExecutable

SpecScript == InitScript /\ [][NextScript]_vars

(***************************************************************************)
(* python.py:108-127 : find_current_python_executable                      *)
(***************************************************************************)
\* text.split("/")
RECURSIVE SplitSlash(_)
SplitSlash(text) ==
    IF \A i \in 1..Len(text) : text[i] # "/" THEN <<text>>
    ELSE LET i == CHOOSE k \in 1..Len(text) :
                      text[k] = "/" /\ \A j \in 1..(k - 1) : text[j] # "/"
         IN  <<SubSeq(text, 1, i - 1)>> \o SplitSlash(SubSeq(text, i + 1, Len(text)))

\* "/".join(parts)
RECURSIVE JoinSlash(_)
JoinSlash(parts) ==
    IF Len(parts) = 0 THEN <<>>
    ELSE IF Len(parts) = 1 THEN parts[1]
    ELSE parts[1] \o Slash \o JoinSlash(Tail(parts))

IsPathPart(part) == part # <<>> /\ part # <<".">>

\* str(pathlib.Path(text)) on a POSIX system: empty and "." components and a
\* trailing slash go, the root stays ("//" only when there are exactly two
\* slashes), and the empty path is "."
PyPath(text) ==
    LET root == IF Len(text) >= 1 /\ text[1] = "/"
                THEN IF Len(text) >= 2 /\ text[2] = "/" /\ (Len(text) = 2 \/ text[3] # "/")
                     THEN Slash \o Slash ELSE Slash
                ELSE <<>>
        body == JoinSlash(SelectSeq(SplitSlash(text), IsPathPart))
    IN  IF root = <<>> /\ body = <<>> THEN <<".">> ELSE root \o body

\* hcli.lib.ida.run_py_in_current_idapython(FIND_PYTHON_PY): the script is
\* run in the current IDA instance and the text after "__hcli__:" is parsed
\* as JSON, a string or null; it fails with RuntimeError.  host is what the
\* instance does.
RunPyInCurrentIdapython(host) ==
    IF host.kind = "raise" THEN [err |-> "RuntimeError", value |-> None]
    ELSE [err |-> "none", value |-> host.value]

\* how the call ends; cause is the exception a raised one is chained to
\* ("raise ... from e")
Returned(value, live, warned) ==
    [out |-> "returned", value |-> value, err |-> "none", cause |-> "none",
     live |-> live, warned |-> warned]
Raised(err, cause, live) ==
    [out |-> "raised", value |-> None, err |-> err, cause |-> cause,
     live |-> live, warned |-> FALSE]

\* find_current_python_executable looking at the cached value first
find_current_python_executable_cache_first(environ, cached, host) ==
    IF cached # None THEN Returned(PyPath(cached), FALSE, FALSE)
    ELSE IF Truthy(environ) THEN Returned(PyPath(environ), FALSE, FALSE)
    ELSE LET ran == RunPyInCurrentIdapython(host)
         IN  IF ran.err # "none" THEN Raised("RuntimeError", ran.err, TRUE)
             ELSE IF ran.value = None THEN Raised("TypeError", "none", TRUE)
             ELSE Returned(PyPath(ran.value), TRUE, ~In(NamePython, ran.value))

\* python.py:108-127.  environ is os.environ.get("HCLI_CURRENT_IDA_PYTHON_EXE"),
\* cached is ENV.HCLI_CURRENT_IDA_PYTHON_EXE.
find_current_python_executable(environ, cached, host) ==
    IF Truthy(environ) THEN Returned(PyPath(environ), FALSE, FALSE)
    ELSE IF cached # None THEN Returned(PyPath(cached), FALSE, FALSE)
    ELSE LET ran == RunPyInCurrentIdapython(host)
         IN  IF ran.err # "none" THEN Raised("RuntimeError", ran.err, TRUE)
             \* "python" not in exe, with exe None
             ELSE IF ran.value = None THEN Raised("TypeError", "none", TRUE)
             ELSE Returned(PyPath(ran.value), TRUE, ~In(NamePython, ran.value))

\* values of the override and of the cached setting
SettingChoices == {None, <<>>, <<"/", "i", "/", "p", "y", "t", "h", "o", "n", "3">>, <<"/", "i", "/", "/", "p", "y", "t", "h", "o", "n", "3">>,
                   <<".", "/", "p", "y", "3">>, <<"/", "i", "/", "p", "y", "/">>}

\* what the running instance does with the script
HostChoices == {[kind |-> "raise", value |-> None]} \cup
               {[kind |-> "return", value |-> v] :
                   v \in {None, <<"/", "i", "/", "p", "y", "t", "h", "o", "n", "3">>, <<"/", "i", "/", "i", "d", "a", "t">>, <<"/", "i", "/", ".", "/", "p", "y", "t", "h", "o", "n", "3">>}}

DiscInputs ==
    {[op |-> "input", environ |-> e, cached |-> c, host |-> h, res |-> Raised("none", "none", FALSE)] :
        e \in SettingChoices, c \in SettingChoices, h \in HostChoices}

InitDiscovery ==
    /\ platform = "linux"
    /\ artifacts = NoArtifacts
    /\ last = IdleLast
    /\ shim = IdleShim
    /\ probe = IdleProbe
    /\ disc \in DiscInputs
    /\ pip = IdlePip

\* one call of find_current_python_executable()
FindCurrentPythonExecutable ==
    /\ disc.op = "input"
    /\ disc' = [disc EXCEPT
                  !.op = "called",
                  !.res = find_current_python_executable(disc.environ, disc.cached, disc.host)]
    /\ UNCHANGED <<platform, artifacts, last, shim, probe, pip>>

NextDiscovery == FindCurrentPythonExecutable

SpecDiscovery == InitDiscovery /\ [][NextDiscovery]_vars

(***************************************************************************)
(* python.py:130-218 : the pip operations                                  *)
(***************************************************************************)
\* bytes.decode() failed; otherwise it gives the code points of the text
UnicodeDecodeError == [ok |-> FALSE, text |-> <<>>]
Decoded(points) == [ok |-> TRUE, text |-> points]

\* the number of continuation bytes the UTF-8 lead byte b announces
\* (-1: b is no lead byte)
Utf8Follow(b) ==
    IF b < 128 THEN 0
    ELSE IF b >= 194 /\ b <= 223 THEN 1
    ELSE IF b >= 224 /\ b <= 239 THEN 2
    ELSE IF b >= 240 /\ b <= 244 THEN 3
    ELSE -1

IsContinuation(b) == b >= 128 /\ b <= 191

\* bytes.decode(): the code points of UTF-8 text, or UnicodeDecodeError
RECURSIVE Utf8Decode(_)
Utf8Decode(bytes) ==
    IF Len(bytes) = 0 THEN Decoded(<<>>)
    ELSE LET n == Utf8Follow(bytes[1])
         IN  IF n < 0 \/ Len(bytes) < 1 + n
                \/ \E i \in 2..(1 + n) : ~IsContinuation(bytes[i])
             THEN UnicodeDecodeError
             ELSE LET rest == Utf8Decode(SubSeq(bytes, 2 + n, Len(bytes)))
                      lead == IF n = 0 THEN bytes[1]
                              ELSE IF n = 1 THEN bytes[1] - 192
                              ELSE IF n = 2 THEN bytes[1] - 224
                              ELSE bytes[1] - 240
                      point == IF n = 0 THEN lead
                               ELSE IF n = 1 THEN lead * 64 + (bytes[2] - 128)
                               ELSE IF n = 2 THEN (lead * 64 + (bytes[2] - 128)) * 64
                                                    + (bytes[3] - 128)
                               ELSE ((lead * 64 + (bytes[2] - 128)) * 64
                                        + (bytes[3] - 128)) * 64 + (bytes[4] - 128)
                  IN  IF rest = UnicodeDecodeError THEN UnicodeDecodeError
                      ELSE Decoded(<<point>> \o rest.text)

(***************************************************************************)
(* The package manager, as the tests and the comments of python.py show it *)
(***************************************************************************)
\* package specs: pins of one package (tests/lib/test_ida_python.py:89-109)
PackageSpecs == {[name |-> "flare-capa", pin |-> v] : v \in {"1", "v1.0.0", "v1.2.0"}}

\* tests/lib/test_ida_python.py:100-109, python.py:158-174: the same spec
\* twice installs; two pins of one package that are not the same text are
\* reported as conflicting
PipConflict(packages) ==
    \E i, j \in 1..Len(packages) :
        packages[i].name = packages[j].name /\ packages[i].pin # packages[j].pin

\* what else can keep pip from doing its work, with pip's exit code
Troubles == {"none", "pip_missing", "network", "build", "usage"}
TroubleCode(trouble) == IF trouble = "none" THEN 0 ELSE IF trouble = "usage" THEN 2 ELSE 1

Argv(flags, packages) == [flags |-> flags, packages |-> packages]

\* pip's exit code for the arguments it is run with
PipExit(argv, trouble) ==
    IF trouble # "none" THEN TroubleCode(trouble)
    ELSE IF argv.flags[3] = "install" /\ PipConflict(argv.packages) THEN 1
    ELSE 0

\* python.py:134: timeout=10.0
TimeoutSeconds == 10
\* subprocess.run without a timeout waits for the process
NoTimeout == <<>>

\* subprocess.run(argv, stdout=PIPE, stderr=PIPE[, timeout]) in a world
\* that says whether the interpreter launches, what troubles pip and what
\* pip prints
SubprocessRunPip(world, argv, timeout) ==
    [err |-> IF world.launch = "notfound" THEN "FileNotFoundError"
             ELSE IF world.launch = "oserror" THEN "PermissionError"
             ELSE IF timeout # NoTimeout /\ world.seconds > timeout[1]
                  THEN "TimeoutExpired"
             ELSE "none",
     returncode |-> PipExit(argv, world.trouble),
     stdout |-> world.stdout, stderr |-> world.stderr]

\* how a call ends: the value returned (None, a bool or text) or the
\* exception raised, with its message when the code gives it one
PipReturned(kind, flag, text, argv) ==
    [out |-> "returned", kind |-> kind, flag |-> flag, text |-> text,
     err |-> "none", argv |-> argv]
PipRaised(err, kind, text, argv) ==
    [out |-> "raised", kind |-> kind, flag |-> FALSE, text |-> text,
     err |-> err, argv |-> argv]

\* does_current_ida_have_pip catching TimeoutExpired and FileNotFoundError
\* only
does_current_ida_have_pip_narrow_except(world) ==
    LET argv == Argv(<<"-m", "pip", "help">>, <<>>)
        process == SubprocessRunPip(world, argv, <<TimeoutSeconds>>)
    IN  IF process.err \in {"TimeoutExpired", "FileNotFoundError"}
        THEN PipReturned("bool", FALSE, <<>>, argv)
        ELSE IF process.err # "none" THEN PipRaised(process.err, "none", <<>>, argv)
        ELSE PipReturned("bool", process.returncode = 0, <<>>, argv)

\* python.py:130-138
does_current_ida_have_pip(world) ==
    LET argv == Argv(<<"-m", "pip", "help">>, <<>>)
        process == SubprocessRunPip(world, argv, <<TimeoutSeconds>>)
    IN  IF process.err \in {"TimeoutExpired", "FileNotFoundError", "PermissionError"}
        THEN PipReturned("bool", FALSE, <<>>, argv)
        ELSE PipReturned("bool", process.returncode = 0, <<>>, argv)

\* python.py:175-178 and 207-210: both outputs are decoded for the log, then
\* the error is raised with the decoded standard output
RaiseCantInstall(process, argv) ==
    IF ~Utf8Decode(process.stdout).ok
    THEN PipRaised("UnicodeDecodeError", "none", <<>>, argv)
    ELSE IF ~Utf8Decode(process.stderr).ok
         THEN PipRaised("UnicodeDecodeError", "none", <<>>, argv)
    ELSE PipRaised("CantInstallPackagesError", "message",
                   Utf8Decode(process.stdout).text, argv)

\* verify_pip_can_install_packages raising on exit code 1 only
verify_pip_can_install_packages_exit_one(packages, world) ==
    LET argv == Argv(<<"-m", "pip", "install", "--dry-run">>, packages)
        process == SubprocessRunPip(world, argv, NoTimeout)
    IN  IF process.err # "none" THEN PipRaised(process.err, "none", <<>>, argv)
        ELSE IF process.returncode = 1 THEN RaiseCantInstall(process, argv)
        ELSE PipReturned("none", FALSE, <<>>, argv)

\* python.py:144-178
verify_pip_can_install_packages(packages, world) ==
    LET argv == Argv(<<"-m", "pip", "install", "--dry-run">>, packages)
        process == SubprocessRunPip(world, argv, NoTimeout)
    IN  IF process.err # "none" THEN PipRaised(process.err, "none", <<>>, argv)
        ELSE IF process.returncode # 0 THEN RaiseCantInstall(process, argv)
        ELSE PipReturned("none", FALSE, <<>>, argv)

\* python.py:181-210
pip_install_packages(packages, world) ==
    LET argv == Argv(<<"-m", "pip", "install">>, packages)
        process == SubprocessRunPip(world, argv, NoTimeout)
    IN  IF process.err # "none" THEN PipRaised(process.err, "none", <<>>, argv)
        ELSE IF process.returncode # 0 THEN RaiseCantInstall(process, argv)
        ELSE PipReturned("none", FALSE, <<>>, argv)

\* python.py:213-218
pip_freeze(world) ==
    LET argv == Argv(<<"-m", "pip", "freeze">>, <<>>)
        process == SubprocessRunPip(world, argv, NoTimeout)
    IN  IF process.err # "none" THEN PipRaised(process.err, "none", <<>>, argv)
        ELSE IF process.returncode # 0
             THEN PipRaised("CalledProcessError", "none", <<>>, argv)
        ELSE IF ~Utf8Decode(process.stdout).ok
             THEN PipRaised("UnicodeDecodeError", "none", <<>>, argv)
        ELSE PipReturned("text", FALSE, Utf8Decode(process.stdout).text, argv)

(***************************************************************************)
(* Calls of the pip operations                                             *)
(***************************************************************************)
\* bytes pip may print: "a", newline, the UTF-8 bytes of e-acute (195 169)
\* and its Latin-1 byte (233)
ByteChoices == {97, 10, 195, 169, 233}

BytesUpTo(n) == UNION {[1..k -> ByteChoices] : k \in 0..n}

PackageLists == UNION {[1..k -> PackageSpecs] : k \in 0..MaxPkgs}

PipOps == {"have_pip", "verify", "install", "freeze"}

\* how long pip runs, in seconds: done at once, or still running when the
\* timeout of does_current_ida_have_pip expires
Durations == {1, TimeoutSeconds + 1}

\* the calls made: the operation, its package list, and what the system and
\* pip will do
PipInputs ==
    {[op |-> op, state |-> "input", packages |-> pk, launch |-> l, seconds |-> d,
      trouble |-> t, stdout |-> so, stderr |-> se, returncode |-> 0,
      res |-> PipReturned("none", FALSE, <<>>, Argv(<<>>, <<>>))] :
        op \in PipOps, pk \in PackageLists, l \in {"ok", "notfound", "oserror"},
        d \in Durations, t \in Troubles, so \in BytesUpTo(MaxOut),
        se \in {<<>>, <<97>>, <<233>>}}

\* no package list but for verify and install; the time pip takes matters
\* to have_pip only; no output, no trouble and no running time when the
\* interpreter cannot be launched
SensiblePipInput(x) ==
    /\ x.op \in {"have_pip", "freeze"} => x.packages = <<>>
    /\ x.op # "have_pip" => x.seconds = 1
    /\ x.launch # "ok" => /\ x.trouble = "none" /\ x.seconds = 1
                          /\ x.stdout = <<>> /\ x.stderr = <<>>

InitPip ==
    /\ platform = "linux"
    /\ artifacts = NoArtifacts
    /\ last = IdleLast
    /\ shim = IdleShim
    /\ probe = IdleProbe
    /\ disc = IdleDisc
    /\ pip \in {x \in PipInputs : SensiblePipInput(x)}

\* the call is over: its result, and the exit code pip gave
Finish(x, res) ==
    [x EXCEPT !.state = "called", !.res = res,
              !.returncode = PipExit(res.argv, x.trouble)]

DoesCurrentIdaHavePip ==
    /\ pip.state = "input" /\ pip.op = "have_pip"
    /\ pip' = Finish(pip, does_current_ida_have_pip(pip))
    /\ UNCHANGED <<platform, artifacts, last, shim, probe, disc>>

VerifyPipCanInstallPackages ==
    /\ pip.state = "input" /\ pip.op = "verify"
    /\ pip' = Finish(pip, verify_pip_can_install_packages(pip.packages, pip))
    /\ UNCHANGED <<platform, artifacts, last, shim, probe, disc>>

PipInstallPackages ==
    /\ pip.state = "input" /\ pip.op = "install"
    /\ pip' = Finish(pip, pip_install_packages(pip.packages, pip))
    /\ UNCHANGED <<platform, artifacts, last, shim, probe, disc>>

PipFreeze ==
    /\ pip.state = "input" /\ pip.op = "freeze"
    /\ pip' = Finish(pip, pip_freeze(pip))
    /\ UNCHANGED <<platform, artifacts, last, shim, probe, disc>>

NextPip == DoesCurrentIdaHavePip \/ VerifyPipCanInstallPackages
               \/ PipInstallPackages \/ PipFreeze

SpecPip == InitPip /\ [][NextPip]_vars

(***************************************************************************)
(* C5                                                                      *)
(***************************************************************************)
\* the text holds, somewhere, "microsoft", one slash of either direction and
\* "windowsapps", letters compared without regard to case
HoldsStoreDirectory(path) ==
    \E sep \in {Backslash, Slash} :
        LET pat == WordMicrosoft \o sep \o WordWindowsApps
        IN  \E i \in 0..(Len(path) - Len(pat)) :
                \A j \in 1..Len(pat) : LowerChar(path[i + j]) = pat[j]

\* C5: is_windows_store_shim(path) is true exactly when path is not None and
\* its text holds microsoft\windowsapps or microsoft/windowsapps in any letter
\* case; it is false for None and for every other path.  Checked both against
\* that statement and against what each input was built to be.
C5_ShimIffStoreDirectory ==
    shim.op = "checked" =>
        /\ shim.result = (shim.path # None /\ HoldsStoreDirectory(shim.path))
        /\ shim.result = shim.expect
        /\ shim.path = None => ~shim.result

\* an upper-case, forward-slash Store path was checked and found a shim
C5_Witness ==
    /\ shim.op = "checked"
    /\ shim.result
    /\ In(Upper(WordMicrosoft) \o Slash \o Upper(WordWindowsApps), shim.path)

(***************************************************************************)
(* C1, C2                                                                  *)
(***************************************************************************)
Supported == {"darwin", "windows", "linux"}

\* The artifacts that make the registration on platform p: the bundle with
\* its plist and its Launch Services entry, the registry subtree, the desktop
\* file with the MIME default.  The desktop database is an index, not part
\* of the registration.
Registration(p, a) ==
    IF p = "darwin" THEN <<a.mac>>
    ELSE IF p = "windows" THEN <<a.reg>>
    ELSE IF p = "linux"
         THEN <<a.lin.dir, a.lin.desktop, a.lin.exec, a.lin.mime>>
    ELSE <<>>

\* the call just made was a register() that directly follows a register()
\* that succeeded, for the same executable
SecondRegister ==
    /\ platform \in Supported
    /\ last.op = "register"
    /\ last.prev.op = "register"
    /\ last.prev.outcome = "installed"
    /\ last.prev.path = last.path

\* C1: on darwin, windows and linux, register() right after a successful
\* register() succeeds as well whenever the external tools and the system
\* answer without error, and it leaves the registration exactly as the first
\* register() left it.
C1_RegisterIdempotent ==
    SecondRegister =>
        /\ last.clean => last.outcome = "installed"
        /\ last.outcome = "installed" =>
               Registration(platform, artifacts) = Registration(platform, last.pre)

\* a second register() on macOS that succeeded, over a bundle that has the
\* URL scheme declared
C1_Witness ==
    /\ SecondRegister
    /\ platform = "darwin"
    /\ last.outcome = "installed"
    /\ HasKey(last.pre.mac.plist, "CFBundleURLTypes")
    /\ artifacts.mac.ls

\* nothing of the handler is there
NoHandler(p, a) ==
    IF p = "darwin" THEN ~a.mac.bundle
    ELSE IF p = "windows" THEN a.reg.keys = {}
    ELSE a.lin.desktop = 0

\* C2: on darwin, windows and linux, unregister() with no handler there
\* returns without raising, with the "not found (already removed)" message,
\* changes nothing of the file system or the registry and runs no external
\* tool.
C2_UnregisterAbsentIsNoop ==
    (platform \in Supported /\ last.op = "unregister" /\ NoHandler(platform, last.pre)) =>
        /\ last.outcome = "not_found"
        /\ last.err = "none"
        /\ artifacts = last.pre
        /\ last.calls = <<>>

\* unregister() was called on macOS after an unregister() had removed the
\* bundle
C2_Witness ==
    /\ platform = "darwin"
    /\ last.op = "unregister"
    /\ last.prev.op = "unregister"
    /\ last.prev.outcome = "removed"
    /\ NoHandler(platform, last.pre)
    /\ last.outcome = "not_found"

(***************************************************************************)
(* C4                                                                      *)
(***************************************************************************)
\* a path that lies in the Windows Store directory
StorePath(path) == path # None /\ HoldsStoreDirectory(path)

\* The candidates the script's sources offer: sys.executable when its file
\* name contains "python", the prefix-derived paths that are files,
\* python3 and python as found on the search path.
Candidates(pr) ==
    (IF Truthy(pr.exe) /\ In(NamePython, Lower(Basename(pr.sys_platform, pr.exe)))
     THEN {pr.exe} ELSE {})
    \cup (IF Truthy(pr.prefix)
          THEN {PrefixPath(pr.sys_platform, pr.prefix, n) :
                   n \in {m \in pr.names : IsWin(pr.sys_platform) \/ m # "python.exe"}}
          ELSE {})
    \cup {w \in {pr.which3, pr.which} : Truthy(w)}

\* C4: find_python_executable() returns a Windows Store shim only when every
\* candidate its sources offer is a shim: it never returns a shim while a
\* candidate that is no shim is available.
C4_ShimOnlyWhenNothingElse ==
    (probe.op = "ran" /\ StorePath(probe.result)) =>
        \A c \in Candidates(probe) : StorePath(c)

\* python3 on the search path is a shim, python is not, and python was
\* returned
C4_Witness ==
    /\ probe.op = "ran"
    /\ StorePath(probe.which3)
    /\ Truthy(probe.which)
    /\ ~StorePath(probe.which)
    /\ probe.result = probe.which

(***************************************************************************)
(* C3                                                                      *)
(***************************************************************************)
\* C3 as stated: whenever the environment override is set it is returned
\* verbatim, and whenever it is unset and the cached value is set the cached
\* value is returned verbatim; live discovery is not invoked in either case.
C3_AsStated ==
    disc.op = "called" =>
        /\ disc.environ # None =>
               disc.res.out = "returned" /\ disc.res.value = disc.environ /\ ~disc.res.live
        /\ (disc.environ = None /\ disc.cached # None) =>
               disc.res.out = "returned" /\ disc.res.value = disc.cached /\ ~disc.res.live

\* C3, amended: whenever the environment override is a non-empty string,
\* Path(override) is returned; whenever the override is unset or empty and
\* the cached value is not None, Path(cached) is returned; live discovery is
\* not invoked in either case.  Path(...) is the text in pathlib's normal
\* form: the text itself when it has no redundant separator or "." component.
C3_OverrideThenCache ==
    disc.op = "called" =>
        /\ Truthy(disc.environ) =>
               /\ disc.res.out = "returned"
               /\ disc.res.value = PyPath(disc.environ)
               /\ ~disc.res.live
        /\ (~Truthy(disc.environ) /\ disc.cached # None) =>
               /\ disc.res.out = "returned"
               /\ disc.res.value = PyPath(disc.cached)
               /\ ~disc.res.live

\* the override and a different cached value were both set, and the
\* override came back as it is
C3_Witness ==
    /\ disc.op = "called"
    /\ Truthy(disc.environ)
    /\ disc.cached # None
    /\ disc.cached # disc.environ
    /\ disc.res.out = "returned"
    /\ disc.res.value = disc.environ
    /\ ~disc.res.live

(***************************************************************************)
(* C6 - C10 : the pip operations                                           *)
(***************************************************************************)
PipCalled(ops) == pip.op \in ops /\ pip.state = "called"

Launched == pip.launch = "ok"

\* pip ran to its end within the timeout of does_current_ida_have_pip
InTime == pip.seconds <= TimeoutSeconds

\* C6: does_current_ida_have_pip never raises and returns a boolean: true
\* exactly when the interpreter launched and pip help ended with exit code
\* zero within the 10-second timeout; false on a nonzero exit, on timeout,
\* on a nonexistent executable and on any other OS-level launch failure.
C6_HavePipNeverRaises ==
    PipCalled({"have_pip"}) =>
        /\ pip.res.out = "returned" /\ pip.res.err = "none"
        /\ pip.res.kind = "bool"
        /\ pip.res.flag <=> (Launched /\ InTime /\ pip.returncode = 0)
        /\ pip.res.argv = Argv(<<"-m", "pip", "help">>, <<>>)

\* a launch failure that is neither a timeout nor a missing file was
\* answered with False
C6_Witness ==
    /\ PipCalled({"have_pip"})
    /\ pip.launch = "oserror"
    /\ pip.res.out = "returned" /\ pip.res.kind = "bool" /\ ~pip.res.flag

\* C7 (as stated): verify_pip_can_install_packages and pip_install_packages
\* return without raising when pip exits with zero, raise
\* CantInstallPackagesError carrying pip's standard output as text when pip
\* exits nonzero, and differ only in the --dry-run flag of verify.
C7_SharedErrorContract ==
    (PipCalled({"verify", "install"}) /\ Launched) =>
        /\ pip.returncode = 0 => pip.res.out = "returned"
        /\ pip.returncode # 0 =>
              /\ pip.res.out = "raised" /\ pip.res.err = "CantInstallPackagesError"
              /\ pip.res.kind = "message"
              /\ Utf8Decode(pip.stdout).ok => pip.res.text = Utf8Decode(pip.stdout).text
        /\ pip.res.argv.packages = pip.packages
        /\ pip.res.argv.flags = IF pip.op = "verify"
                                THEN <<"-m", "pip", "install", "--dry-run">>
                                ELSE <<"-m", "pip", "install">>

AllIdentical(packages) == \A i, j \in 1..Len(packages) : packages[i] = packages[j]

\* C8 (as stated): for a request of '==' pins of one package,
\* verify_pip_can_install_packages does not raise when all the specs are
\* the same string, raises CantInstallPackagesError when two specs carry
\* different version strings, and hands pip the list unchanged.
C8_SamePackagePins ==
    (PipCalled({"verify"}) /\ Launched /\ pip.trouble = "none" /\ pip.packages # <<>>) =>
        /\ pip.res.argv.packages = pip.packages
        /\ AllIdentical(pip.packages) => pip.res.out = "returned"
        /\ ~AllIdentical(pip.packages) =>
              pip.res.out = "raised" /\ pip.res.err = "CantInstallPackagesError"

\* the failure of the call is a dependency conflict: pip ran untroubled and
\* found the request contradictory
FailureIsConflict == Launched /\ pip.trouble = "none" /\ PipConflict(pip.packages)

\* C9 (as stated): verify_pip_can_install_packages and pip_install_packages
\* raise CantInstallPackagesError when and only when the failure is a
\* dependency conflict; every other failure surfaces as a different error.
C9_AsStated ==
    PipCalled({"verify", "install"}) =>
        (pip.res.err = "CantInstallPackagesError" <=> FailureIsConflict)

\* C9 (amended): CantInstallPackagesError is raised when and only when pip
\* was launched, exited nonzero for whatever reason, and both captured
\* outputs decode as UTF-8; output that does not decode surfaces as
\* UnicodeDecodeError, and an interpreter that cannot be launched as the
\* OSError of the launch.
C9_RaisedOnAnyNonzeroExit ==
    PipCalled({"verify", "install"}) =>
        /\ pip.res.err = "CantInstallPackagesError" <=>
              /\ Launched /\ pip.returncode # 0
              /\ Utf8Decode(pip.stdout).ok /\ Utf8Decode(pip.stderr).ok
        /\ pip.res.err = "UnicodeDecodeError" <=>
              /\ Launched /\ pip.returncode # 0
              /\ ~(Utf8Decode(pip.stdout).ok /\ Utf8Decode(pip.stderr).ok)
        /\ ~Launched <=> pip.res.err \in {"FileNotFoundError", "PermissionError"}
        /\ (Launched /\ pip.returncode = 0) <=> pip.res.out = "returned"

\* a network failure of a conflict-free request was reported with
\* CantInstallPackagesError
C9_Witness ==
    /\ PipCalled({"verify", "install"})
    /\ pip.trouble = "network" /\ ~PipConflict(pip.packages)
    /\ pip.res.out = "raised" /\ pip.res.err = "CantInstallPackagesError"

\* C10 (as stated): pip_freeze returns pip's captured standard output as
\* text, unmodified, when pip freeze exits with zero, and on any nonzero
\* exit raises CalledProcessError and returns no text.
C10_FreezeReturnsText ==
    (PipCalled({"freeze"}) /\ Launched) =>
        /\ pip.returncode = 0 =>
              /\ pip.res.out = "returned" /\ pip.res.kind = "text"
              /\ Utf8Decode(pip.stdout).ok => pip.res.text = Utf8Decode(pip.stdout).text
        /\ pip.returncode # 0 =>
              /\ pip.res.out = "raised" /\ pip.res.err = "CalledProcessError"
              /\ pip.res.kind = "none"

(***************************************************************************)
(* C11                                                                     *)
(***************************************************************************)
\* C11: on a platform that is none of darwin, windows, linux, both
\* register_protocol_handler() and unregister_protocol_handler() raise
\* (RuntimeError) at once: no external tool was invoked and no artifact of
\* any strategy was written or removed.
C11_UnsupportedPlatformRaises ==
    (platform \notin Supported /\ last.op # "none") =>
        /\ last.outcome = "raised"
        /\ last.err = "RuntimeError"
        /\ last.calls = <<>>
        /\ artifacts = last.pre
        /\ artifacts = NoArtifacts

\* on an unsupported platform unregister was called after register
C11_Witness ==
    /\ platform \notin Supported
    /\ last.op = "unregister"
    /\ last.prev.op = "register"
    /\ last.outcome = "raised"

(***************************************************************************)
(* C12                                                                     *)
(***************************************************************************)
\* leaf to root: shell\open\command, shell\open, shell, DefaultIcon, the root key
LeafToRoot == <<"command", "open", "shell", "DefaultIcon", "root">>

\* every key that is there sits in a key that is there
IsKeyTree(keys) == \A k \in keys : RegParent(k) = "none" \/ RegParent(k) \in keys

\* C12: Windows unregister deletes the keys leaf to root (what it deleted is
\* always an initial part of command, open, shell, DefaultIcon, root, so no
\* key goes while a subkey of it is there, and the whole subtree goes when
\* nothing fails); the first deletion that finds its key missing ends the
\* operation with the "already removed" outcome and no error; a deletion
\* that fails for any other reason is raised to the caller.
C12_WindowsUnregisterLeafToRoot ==
    (platform = "windows" /\ last.op = "unregister") =>
        LET pre == last.pre.reg.keys
            deleted == pre \ artifacts.reg.keys
            n == Cardinality(deleted)
        IN  /\ artifacts.reg.keys \subseteq pre
            /\ deleted = {LeafToRoot[i] : i \in 1..n}
            /\ IsKeyTree(artifacts.reg.keys)
            /\ n = 5 <=> last.outcome = "removed"
            /\ (n < 5 /\ LeafToRoot[n + 1] \notin pre) =>
                   last.outcome = "not_found" /\ last.err = "none"
            /\ (n < 5 /\ LeafToRoot[n + 1] \in pre) =>
                   last.outcome = "raised" /\ last.err = "OSError"
            /\ (last.clean /\ pre = RegKeys) =>
                   last.outcome = "removed" /\ artifacts.reg = NoReg

\* a deletion failed after the first two keys were deleted; the failure was
\* raised
C12_Witness ==
    /\ platform = "windows" /\ last.op = "unregister"
    /\ last.pre.reg.keys = RegKeys
    /\ artifacts.reg.keys = {"root", "DefaultIcon", "shell"}
    /\ last.outcome = "raised" /\ last.err = "OSError"

(***************************************************************************)
(* C13                                                                     *)
(***************************************************************************)
\* what the invocations of a tool answered during the last call
ToolAnswers(tool) ==
    {last.calls[i].answer : i \in {j \in 1..Len(last.calls) : last.calls[j].tool = tool}}

LinuxRegister == platform = "linux" /\ last.op = "register"

\* C13 (as stated): in Linux register(), a failure of the desktop-database
\* refresh is not fatal - register() completes with the success outcome,
\* the desktop entry and the MIME default in place - whereas a failure of
\* the xdg-mime step makes register() raise.
C13_RefreshFailureNonFatal ==
    LinuxRegister =>
        /\ (ToolAnswers("update-desktop-database") \cap {"nonzero", "oserror"} # {}) =>
              /\ last.outcome = "installed"
              /\ artifacts.lin.desktop = last.path
              /\ artifacts.lin.mime
        /\ (ToolAnswers("xdg-mime") \cap {"nonzero", "oserror"} # {}) =>
              last.outcome = "raised"

(***************************************************************************)
(* C14                                                                     *)
(***************************************************************************)
\* the last call was made on a supported platform
StrategyRan == platform \in Supported /\ last.op # "none"

Tolerated(op, tool) ==
    \/ tool = "update-desktop-database"
    \/ op = "unregister" /\ tool \in {"lsregister", "xdg-mime"}

CalledWithNothingSet == disc.op = "called" /\ disc.environ = None /\ disc.cached = None

\* C15 (as stated): with no override and no cached value,
\* find_current_python_executable() fails only if the live discovery raised,
\* and then with the discovery error (RuntimeError) chained to that cause;
\* every other outcome of the live discovery comes back to the caller as a
\* return, and a path is returned whether or not it holds "python".
C15_FailsOnlyIfDiscoveryErrors ==
    CalledWithNothingSet =>
        /\ disc.res.live
        /\ disc.res.out = "raised" <=> disc.host.kind = "raise"
        /\ disc.res.out = "raised" =>
              disc.res.err = "RuntimeError" /\ disc.res.cause = "RuntimeError"
        /\ (disc.host.kind = "return" /\ disc.host.value # None) =>
              disc.res.out = "returned" /\ disc.res.value = PyPath(disc.host.value)

(***************************************************************************)
(* C16                                                                     *)
(***************************************************************************)
\* the last call raised part-way; Completed is the number of operations it
\* had completed before the one that failed
FailedPartWay == StrategyRan /\ last.outcome = "raised"
Completed == Len(last.steps) - 1

\* whether one of the completed operations was the one named
CompletedStep(name) == \E i \in 1..Completed : last.steps[i].step = name

\* What register() has written once it has completed c of its operations,
\* over the artifacts pre, for the executable path.
\* Linux: mkdir, write_text, chmod, xdg-mime, update-desktop-database
LinuxWritten(pre, path, c) ==
    [dir |-> c >= 1 \/ pre.dir,
     desktop |-> IF c >= 2 THEN path ELSE pre.desktop,
     exec |-> IF c >= 3 THEN TRUE
              ELSE IF c = 2 THEN pre.desktop # 0 /\ pre.exec
              ELSE pre.exec,
     mime |-> c >= 4 \/ pre.mime,
     db |-> pre.db]

\* Windows: CreateKey root, two SetValueEx, CreateKey DefaultIcon, SetValueEx,
\* CreateKey shell, shell\open, shell\open\command, SetValueEx
WindowsWritten(pre, path, c) ==
    [keys |-> pre.keys \cup (IF c >= 1 THEN {"root"} ELSE {})
                       \cup (IF c >= 4 THEN {"DefaultIcon"} ELSE {})
                       \cup (IF c >= 6 THEN {"shell"} ELSE {})
                       \cup (IF c >= 7 THEN {"open"} ELSE {})
                       \cup (IF c >= 8 THEN {"command"} ELSE {}),
     proto |-> c >= 2 \/ pre.proto,
     urlp |-> c >= 3 \/ pre.urlp,
     icon |-> IF c >= 5 THEN path ELSE pre.icon,
     cmd |-> IF c >= 9 THEN path ELSE pre.cmd]

\* C16: when a step of register() or unregister() fails part-way the
\* operation raises and what the earlier steps wrote or deleted stays as it
\* was at the failure, nothing is rolled back: the Linux desktop entry, its
\* mode and the MIME default so far written, the registry keys and values so
\* far created, the compiled (and, once copied, the patched) macOS bundle;
\* the bundle, the desktop entry and the registry keys so far deleted by
\* unregister() stay deleted.
C16_NoRollback ==
    /\ (StrategyRan /\ Len(last.steps) > 0
           /\ last.steps[Len(last.steps)].went \in {"oserror", "denied"})
          => last.outcome = "raised"
    /\ FailedPartWay =>
        /\ Len(last.steps) > 0
        /\ \A i \in 1..Completed : last.steps[i].went \in {"ok", "nonzero"}
        /\ (platform = "linux" /\ last.op = "register") =>
              artifacts.lin = LinuxWritten(last.pre.lin, last.path, Completed)
        /\ (platform = "windows" /\ last.op = "register") =>
              artifacts.reg = WindowsWritten(last.pre.reg, last.path, Completed)
        /\ (platform = "darwin" /\ last.op = "register") =>
              /\ Completed = 0 => artifacts.mac = last.pre.mac
              /\ Completed >= 1 =>
                    /\ artifacts.mac.bundle /\ artifacts.mac.script = last.path
                    /\ artifacts.mac.ls = last.pre.mac.ls
              /\ CompletedStep("copy2") =>
                    /\ HasKey(artifacts.mac.plist, "CFBundleURLTypes")
                    /\ artifacts.mac.fmt = "binary"
        /\ (platform = "darwin" /\ last.op = "unregister") =>
              /\ Completed = 0 => artifacts.mac = last.pre.mac
              /\ Completed >= 1 =>
                    ~artifacts.mac.bundle /\ artifacts.mac.ls = last.pre.mac.ls
        /\ (platform = "linux" /\ last.op = "unregister") =>
              /\ Completed = 0 => artifacts.lin = last.pre.lin
              /\ Completed >= 1 =>
                    /\ artifacts.lin.desktop = 0
                    /\ artifacts.lin.dir = last.pre.lin.dir
                    /\ artifacts.lin.db = last.pre.lin.db
                    /\ artifacts.lin.mime =
                          IF Completed >= 2 /\ last.steps[2].went = "ok"
                          THEN FALSE ELSE last.pre.lin.mime
        /\ (platform = "windows" /\ last.op = "unregister") =>
              artifacts.reg.keys =
                  last.pre.reg.keys \ {LeafToRoot[i] : i \in 1..Completed}

\* a Linux register() whose xdg-mime step failed has raised and left the new
\* desktop entry in place
C16_Witness ==
    /\ platform = "linux" /\ last.op = "register" /\ last.outcome = "raised"
    /\ Len(last.steps) = 4 /\ last.steps[4].step = "xdg-mime"
    /\ last.pre.lin.desktop = 0
    /\ artifacts.lin.desktop = last.path /\ artifacts.lin.exec
    /\ ~artifacts.lin.mime

\* a Windows register() that failed after creating the root key and
\* DefaultIcon has left both keys in place
C16_WitnessWindows ==
    /\ platform = "windows" /\ last.op = "register" /\ last.outcome = "raised"
    /\ last.pre.reg.keys = {}
    /\ artifacts.reg.keys = {"root", "DefaultIcon"}

(***************************************************************************)
(* C17                                                                     *)
(***************************************************************************)
\* how many times the key k is declared in the plist
Declared(content, k) == Cardinality({i \in 1..Len(content) : content[i] = k})

\* C17: after every successful macOS register(), however many came before,
\* the bundle's Info.plist declares CFBundleURLTypes exactly once and
\* LSUIElement exactly once and the bundle is known to Launch Services; and
\* at no time does a plist declare either of them twice.
C17_OneUrlSchemeDeclaration ==
    platform = "darwin" =>
        /\ Declared(artifacts.mac.plist, "CFBundleURLTypes") <= 1
        /\ Declared(artifacts.mac.plist, "LSUIElement") <= 1
        /\ (last.op = "register" /\ last.outcome = "installed") =>
              /\ artifacts.mac.bundle
              /\ Declared(artifacts.mac.plist, "CFBundleURLTypes") = 1
              /\ Declared(artifacts.mac.plist, "LSUIElement") = 1
              /\ artifacts.mac.ls

\* a register() succeeded over a bundle whose plist, kept by the compiler,
\* already had the declaration
C17_Witness ==
    /\ platform = "darwin" /\ last.op = "register" /\ last.outcome = "installed"
    /\ Declared(last.pre.mac.plist, "CFBundleURLTypes") = 1
    /\ artifacts.mac.plist = last.pre.mac.plist
    /\ Len(last.steps) = 3

(***************************************************************************)
(* C18                                                                     *)
(***************************************************************************)
\* the first path of the sequence that is in the set good, None without one
FirstOf(paths, good) ==
    LET hits == {i \in 1..Len(paths) : paths[i] \in good}
    IN  IF hits = {} THEN None
        ELSE paths[CHOOSE i \in hits : \A j \in hits : i <= j]

\* (a) the reported executable, if its file name holds "python" and it is no
\* Store shim
StepExecutable(pr) ==
    IF /\ Truthy(pr.exe)
       /\ In(NamePython, Lower(Basename(pr.sys_platform, pr.exe)))
       /\ ~StorePath(pr.exe)
    THEN pr.exe ELSE None

\* (b) <prefix>/python.exe on Windows, <prefix>/bin/python3 or
\* <prefix>/bin/python elsewhere, if it exists and is no Store shim
StepPrefix(pr) ==
    IF ~Truthy(pr.prefix) THEN None
    ELSE LET names == IF IsWin(pr.sys_platform) THEN <<"python.exe">>
                      ELSE <<"bin/python3", "bin/python">>
             paths == [i \in 1..Len(names) |->
                          PrefixPath(pr.sys_platform, pr.prefix, names[i])]
         IN  FirstOf(paths, {p \in IsFileSet(pr) : ~StorePath(p)})

\* (c) the first of python3, python on the search path that is no Store shim
StepWhich(pr) ==
    FirstOf(<<pr.which3, pr.which>>, {w \in {pr.which3, pr.which} : Truthy(w) /\ ~StorePath(w)})

\* (d) the first of python3, python on the search path
StepLastResort(pr) ==
    FirstOf(<<pr.which3, pr.which>>, {w \in {pr.which3, pr.which} : Truthy(w)})

\* the first of the four steps that yields a candidate
FirstQualifying(pr) ==
    FirstOf(<<StepExecutable(pr), StepPrefix(pr), StepWhich(pr), StepLastResort(pr)>>,
            {StepExecutable(pr), StepPrefix(pr), StepWhich(pr), StepLastResort(pr)} \ {None})

\* C18 (as stated): the discovery script returns the first candidate that
\* qualifies in the order (a) reported executable, (b) prefix-derived path -
\* <prefix>/python.exe on Windows, <prefix>/bin/python3 or <prefix>/bin/python
\* on the others, (c) python3 or python on the search path that is no shim,
\* (d) python3 or python on the search path even if a shim; a later step is
\* consulted only when no earlier one yields a candidate.
C18_FirstQualifyingCandidate ==
    probe.op = "ran" => probe.result = FirstQualifying(probe)

(***************************************************************************)
(* C19: when live discovery runs and the host returns no usable output     *)
(* (the script found no interpreter and printed the sentinel line with     *)
(* JSON null), find_current_python_executable() fails with the discovery   *)
(* failure error, RuntimeError: it returns no path and raises no other     *)
(* error type.                                                             *)
(***************************************************************************)
HostReturnedNull ==
    /\ disc.op = "called"
    /\ disc.res.live
    /\ disc.host.kind = "return"
    /\ disc.host.value = None

C19_NullIsDiscoveryFailure ==
    HostReturnedNull => disc.res.out = "raised" /\ disc.res.err = "RuntimeError"

(***************************************************************************)
(* C20: on darwin, windows and linux, a register() that succeeded starting *)
(* with no handler, followed by an unregister() that succeeded, leaves no  *)
(* registration behind: the macOS bundle directory is gone, the Windows    *)
(* registry subtree of the scheme (root key and all subkeys) is gone, the  *)
(* Linux desktop-entry file is gone and the MIME default is cleared; one   *)
(* more unregister() then reports "already removed".                       *)
(***************************************************************************)
\* nothing of the registration is left
NothingLeft(p, a) ==
    IF p = "darwin" THEN ~a.mac.bundle
    ELSE IF p = "windows" THEN a.reg.keys = {}
    ELSE a.lin.desktop = 0 /\ ~a.lin.mime

\* the step is a successful unregister() after a successful register() that
\* started with no handler
RegisteredThenUnregistered ==
    /\ platform \in Supported
    /\ last.op = "register"
    /\ last.outcome = "installed"
    /\ NoHandler(platform, last.pre)
    /\ last'.op = "unregister"
    /\ last'.outcome = "removed"

\* whatever the tools answer, unregister() on a reports "already removed"
ReportsAlreadyRemoved(p, a) ==
    \A env \in UnregisterEnvs(p) :
        Outcome(unregister_protocol_handler(p, a, env)) = "not_found"

C20_RegisterUnregisterLeavesNothing ==
    [][RegisteredThenUnregistered =>
           /\ NothingLeft(platform, artifacts')
           /\ ReportsAlreadyRemoved(platform, artifacts')]_vars

(***************************************************************************)
(* C21: in every state reached by register() and unregister() calls whose  *)
(* steps may fail part-way, whenever unregister() returns without raising  *)
(* ("removed" or "already removed") no part of the registration remains:   *)
(* no macOS bundle, no key of the scheme's Windows registry subtree, no    *)
(* Linux desktop entry and no MIME default for the scheme.                 *)
(***************************************************************************)
UnregisterReturned ==
    /\ platform \in Supported
    /\ last.op = "unregister"
    /\ last.err = "none"

C21_ReturnedUnregisterLeavesNothing ==
    UnregisterReturned => NothingLeft(platform, artifacts)

(***************************************************************************)
(* C22: the is_windows_store_shim of the injected script, after the escape *)
(* processing of the host's string literal, and the host's                 *)
(* is_windows_store_shim give the same result on every path: None, both    *)
(* slash directions, any letter case.                                      *)
(***************************************************************************)
BothChecked == shim.op = "checked" /\ shim.script # NotRun

C22_EmbeddedShimAgreesWithHost ==
    BothChecked => shim.script = ShimReturned(shim.result)

====
